---- MODULE Spec2Model ----
(***************************************************************************)
(* Model of monitor_x_trends.py: one scheduled run of main() after the     *)
(* other, sharing only the on-disk state document.                         *)
(*                                                                         *)
(* Representation choices:                                                 *)
(*  - tweet ids and trend names are natural numbers (opaque tokens);       *)
(*  - a text is a run-length encoded character sequence over the classes   *)
(*    "a" (non-blank), "sp" (blank), "nl" (line break), "el" (ellipsis);   *)
(*  - a message is the sequence of the pieces appended to msg, each with   *)
(*    its length in characters, so len(msg) is the sum of the lengths;     *)
(*  - the iteration order of a Python set of strings depends on the        *)
(*    per-process string hash seed; list(set) is modelled as a choice      *)
(*    among the rotations 0..MaxSeed of the ascending order.               *)
(***************************************************************************)
EXTENDS Integers, Sequences, FiniteSets, TLC

VARIABLES env, file, run, pc, state, trendsFailed, political_trends, tweets,
          new_tweets, message, new_state, log, prev

vars == <<env, file, run, pc, state, trendsFailed, political_trends, tweets,
          new_tweets, message, new_state, log, prev>>

----------------------------------------------------------------------------
(* Bounds of the model *)

\* number of scheduled runs explored
MaxRuns == 2

\* list(set(..)) orders explored: rotations 0..MaxSeed of the ascending order
MaxSeed == 1

\* the largest state file of Init holds KEEP_IDS + Oversize ids
Oversize == 1

----------------------------------------------------------------------------
(* Program constants *)

MAX_TWEETS == 15
MAX_TRENDS == 25
TELEGRAM_MAX_LEN == 4000
KEEP_IDS == 200
TEXT_LIMIT == 180
SEARCH_API_MAX == 100

\* len(f"📡 Monitor X — {ts}\n\n") with ts = strftime("%d/%m/%Y %H:%M")
HEADER_LEN == 32
\* len("🔥 Trends políticas (BR):\n")
TRENDS_HEAD_LEN == 25
\* len("🔥 Trends políticas (BR): nenhuma filtrada agora.\n")
TRENDS_NONE_LEN == 49
\* len("🔥 Trends políticas (BR): sem mudança relevante desde o último envio.\n")
TRENDS_SAME_LEN == 69
\* len("🗣️ Menções recentes à Julia Zanatta (novas):\n")
TWEETS_HEAD_LEN == 45
\* len("🗣️ Menções à Julia Zanatta: nada novo desde o último envio.\n")
TWEETS_NONE_LEN == 60
\* len("• ") + len("\n") around a trend name
TREND_LINE_EXTRA == 3
\* len("• ") + len(" — ") + len("\n") around created and text
TWEET_LINE_EXTRA == 6
\* len(datetime.isoformat()) of a timezone-aware timestamp without microseconds
ISO_LEN == 25

----------------------------------------------------------------------------
(* Sequence helpers (Python list semantics) *)

Range(s) == {s[i] : i \in DOMAIN s}

Min(a, b) == IF a < b THEN a ELSE b

\* s[:n]
Prefix(s, n) == SubSeq(s, 1, Min(n, Len(s)))

\* s[-n:] for n > 0
Suffix(s, n) == IF Len(s) <= n THEN s ELSE SubSeq(s, Len(s) - n + 1, Len(s))

Interval(a, b) == [i \in 1..(b - a + 1) |-> a + i - 1]

RECURSIVE SumLen(_)
SumLen(s) == IF s = <<>> THEN 0 ELSE Head(s).len + SumLen(Tail(s))

----------------------------------------------------------------------------
(* Texts: run-length encoded strings *)

Rep(c, n) == [c |-> c, n |-> n]

IsSpace(r) == r.c \in {"sp", "nl"}

RECURSIVE TextLen(_)
TextLen(t) == IF t = <<>> THEN 0 ELSE Head(t).n + TextLen(Tail(t))

\* text.replace("\n", " ")
ReplaceNewlines(t) == [i \in DOMAIN t |-> IF t[i].c = "nl" THEN Rep("sp", t[i].n) ELSE t[i]]

RECURSIVE LStrip(_)
LStrip(t) == IF t # <<>> /\ IsSpace(Head(t)) THEN LStrip(Tail(t)) ELSE t

RECURSIVE RStrip(_)
RStrip(t) ==
    IF t # <<>> /\ IsSpace(t[Len(t)]) THEN RStrip(SubSeq(t, 1, Len(t) - 1)) ELSE t

\* text.strip()
Strip(t) == RStrip(LStrip(t))

\* text[:k]
RECURSIVE TakeChars(_, _)
TakeChars(t, k) ==
    IF t = <<>> \/ k <= 0 THEN <<>>
    ELSE IF Head(t).n <= k THEN <<Head(t)>> \o TakeChars(Tail(t), k - Head(t).n)
    ELSE <<Rep(Head(t).c, k)>>

\* lines 166-168: the text of one rendered mention
TrimText(t) ==
    LET text == Strip(ReplaceNewlines(t))
    IN  IF TextLen(text) > TEXT_LIMIT
        THEN RStrip(TakeChars(text, TEXT_LIMIT)) \o <<Rep("el", 1)>>
        ELSE text

----------------------------------------------------------------------------
(* Values *)

None == [some |-> FALSE, v |-> <<>>]
Some(x) == [some |-> TRUE, v |-> x]

Trend(name, len, political) == [name |-> name, len |-> len, political |-> political]

Tweet(id, created_at, text) == [id |-> id, created_at |-> created_at, text |-> text]

Seg(kind, len, ref) == [kind |-> kind, len |-> len, ref |-> ref]

\* a parsed JSON document: top is the type of the top-level value; hash and
\* ids are the members last_trends_hash and last_tweet_ids of an object
Doc(top, hash, idsType, ids) ==
    [top |-> top, hash |-> hash, ids |-> [t |-> idsType, v |-> ids]]

\* line 56
DefaultState == Doc("object", None, "list", <<>>)

NoFile == [kind |-> "absent", doc |-> DefaultState]
Garbage == [kind |-> "garbage", doc |-> DefaultState]
JsonFile(doc) == [kind |-> "json", doc |-> doc]

----------------------------------------------------------------------------
(* Pure functions of the program *)

\* "\n".join(items): the names separated by the token 0
RECURSIVE Join(_)
Join(names) ==
    IF names = <<>> THEN <<>>
    ELSE IF Len(names) = 1 THEN <<Head(names)>>
    ELSE <<Head(names), 0>> \o Join(Tail(names))

\* lines 124-128; the 16 hex digits of sha256 are taken as collision-free on
\* the payloads of the model, so the digest is represented by its payload
short_hash(items) == Some(Join([i \in DOMAIN items |-> items[i].name]))

\* lines 86-92; political stands for "some keyword occurs in the lowered name"
filter_political_trends(trends) == SelectSeq(trends, LAMBDA tr : tr.political)

\* first id not yet used by a state file of Init
FreshBase == KEEP_IDS + Oversize

MaxId == FreshBase + MAX_TWEETS

Rotate(s, k) ==
    IF s = <<>> THEN s
    ELSE LET r == k % Len(s)
         IN  SubSeq(s, r + 1, Len(s)) \o SubSeq(s, 1, r)

\* list() of a set of strings: its elements in an order fixed by the hash
\* seed of the process
ListOfSet(S, seed) == Rotate(SelectSeq(Interval(1, MaxId), LAMBDA i : i \in S), seed)

\* line 137: set(state.get("last_tweet_ids", []))
SeenIds(st) == Range(st.ids.v)

\* list(seen_ids) at line 144
SeenListRaw(st, seed) == st.ids.v

SeenList(st, seed) == ListOfSet(SeenIds(st), seed)

\* line 138
NewTweetsAll(tws, seen) == tws

NewTweets(tws, seen) == SelectSeq(tws, LAMBDA t : t.id \notin seen)

\* line 144
KeepIdsUnbounded(seenList, newIds) == seenList \o newIds

KeepIds(seenList, newIds) == Suffix(seenList \o newIds, KEEP_IDS)

\* msg[:k] on the pieces of a message
RECURSIVE TakeSegs(_, _)
TakeSegs(m, k) ==
    IF m = <<>> \/ k <= 0 THEN <<>>
    ELSE IF Head(m).len <= k THEN <<Head(m)>> \o TakeSegs(Tail(m), k - Head(m).len)
    ELSE <<Seg(Head(m).kind, k, Head(m).ref)>>

\* lines 174-175
NoLimit(m) == m

TelegramLimit(m) ==
    IF SumLen(m) > TELEGRAM_MAX_LEN
    THEN TakeSegs(m, TELEGRAM_MAX_LEN - 1) \o <<Seg("ellipsis", 1, 0)>>
    ELSE m

\* lines 150-158
TrendsSection(pt, changed) ==
    IF changed
    THEN IF pt # <<>>
         THEN LET shown == Prefix(pt, MAX_TRENDS)
              IN  <<Seg("trends_head", TRENDS_HEAD_LEN, 0)>>
                  \o [i \in DOMAIN shown |->
                        Seg("trend", TREND_LINE_EXTRA + shown[i].len, shown[i].name)]
         ELSE <<Seg("trends_none", TRENDS_NONE_LEN, 0)>>
    ELSE <<Seg("trends_same", TRENDS_SAME_LEN, 0)>>

\* line 165: t["created_at"] or ""
CreatedLen(t) == IF t.created_at.some THEN t.created_at.v ELSE 0

\* lines 162-171
TweetsSection(nt) ==
    IF nt # <<>>
    THEN LET shown == Prefix(nt, MAX_TWEETS)
         IN  <<Seg("tweets_head", TWEETS_HEAD_LEN, 0)>>
             \o [i \in DOMAIN shown |->
                   Seg("tweet",
                       TWEET_LINE_EXTRA + CreatedLen(shown[i])
                           + TextLen(TrimText(shown[i].text)),
                       shown[i].id)]
    ELSE <<Seg("tweets_none", TWEETS_NONE_LEN, 0)>>

\* build_message raises: state.get on a value that is no dict (line 134),
\* set() of a value that is not iterable (line 137)
BuildRaises(st) == st.top # "object" \/ st.ids.t \in {"null", "number"}

\* lines 131-177, for a state on which it does not raise
build_message(pt, tws, st, seed) ==
    LET trends_hash == short_hash(pt)
        trends_changed == trends_hash # st.hash
        seen_ids == SeenIds(st)
        nt == NewTweets(tws, seen_ids)
        keep_ids == KeepIds(SeenList(st, seed), [i \in DOMAIN nt |-> nt[i].id])
        msg == <<Seg("header", HEADER_LEN, 0)>>
               \o TrendsSection(pt, trends_changed)
               \o <<Seg("blank", 1, 0)>>
               \o TweetsSection(nt)
    IN  [message |-> TelegramLimit(msg),
         new_state |-> Doc("object", trends_hash, "list", keep_ids),
         new_tweets |-> nt]

----------------------------------------------------------------------------
(* Inputs: environment, state files, answers of the two APIs *)

Credentials == {"TWITTER_API_KEY", "TWITTER_API_SECRET", "TWITTER_ACCESS_TOKEN",
                "TWITTER_ACCESS_SECRET", "TWITTER_BEARER_TOKEN",
                "TELEGRAM_BOT_TOKEN", "TELEGRAM_CHAT_ID"}

\* an environment is the set of variables that are set (and not empty)
EnvCases == {Credentials} \cup {Credentials \ {c} : c \in Credentials}

GoodFileCases ==
    {NoFile,
     JsonFile(Doc("object", None, "list", Interval(1, 2))),
     JsonFile(Doc("object", Some(<<>>), "list", Interval(1, KEEP_IDS))),
     JsonFile(Doc("object", None, "list", Interval(1, KEEP_IDS + Oversize)))}

BadFileCases ==
    {Garbage,
     JsonFile(Doc("array", None, "missing", <<>>)),
     JsonFile(Doc("object", None, "missing", <<>>)),
     JsonFile(Doc("object", None, "null", <<>>)),
     JsonFile(Doc("object", None, "number", <<>>))}

FileCases == GoodFileCases \cup BadFileCases

ShortText == <<Rep("a", 5), Rep("nl", 1), Rep("a", 5)>>

LongText == <<Rep("sp", 2), Rep("a", TEXT_LIMIT - 1), Rep("sp", 3), Rep("a", 50), Rep("nl", 1)>>

\* what get_place_trends returns (line 82), before names[:MAX_TRENDS]
TrendCases ==
    {<<Trend(1, 7, FALSE)>>,
     [i \in 1..(MAX_TRENDS + 2) |-> Trend(1 + i, 60, i # 2)]}

\* what search_recent_tweets returns (resp.data, lines 111-120): nothing, a
\* full page whose first tweet is an old one, the same tweet twice
TweetCases ==
    {<<>>,
     [i \in 1..MAX_TWEETS |->
        IF i = 1 THEN Tweet(1, None, ShortText)
        ELSE Tweet(FreshBase + i, Some(ISO_LEN), LongText)],
     <<Tweet(FreshBase + 1, Some(ISO_LEN), ShortText),
       Tweet(FreshBase + 1, Some(ISO_LEN), ShortText)>>}

NoPrev == [valid |-> FALSE, saved |-> FALSE, state |-> DefaultState, tweets |-> <<>>,
           new_tweets |-> <<>>, new_state |-> DefaultState]

----------------------------------------------------------------------------
(* The runs *)

Init ==
    /\ env \in EnvCases
    /\ file \in FileCases
    /\ (env = Credentials \/ file = NoFile)
    /\ run = 1
    /\ pc = "start"
    /\ state = DefaultState
    /\ trendsFailed = FALSE
    /\ political_trends = <<>>
    /\ tweets = <<>>
    /\ new_tweets = <<>>
    /\ message = <<>>
    /\ new_state = DefaultState
    /\ log = <<>>
    /\ prev = NoPrev

\* lines 45-47
require_env(name) == name \in env

\* lines 181-182: a missing Telegram variable raises out of main
Start ==
    /\ pc = "start"
    /\ pc' = IF require_env("TELEGRAM_BOT_TOKEN") /\ require_env("TELEGRAM_CHAT_ID")
             THEN "load" ELSE "fatal"
    /\ UNCHANGED <<env, file, run, state, trendsFailed, political_trends, tweets,
                   new_tweets, message, new_state, log, prev>>

\* lines 50-56
load_state == IF file.kind = "json" THEN file.doc ELSE DefaultState

LoadState ==
    /\ pc = "load"
    /\ state' = load_state
    /\ pc' = "trends"
    /\ UNCHANGED <<env, file, run, trendsFailed, political_trends, tweets,
                   new_tweets, message, new_state, log, prev>>

TwitterKeysPresent ==
    /\ require_env("TWITTER_API_KEY")
    /\ require_env("TWITTER_API_SECRET")
    /\ require_env("TWITTER_ACCESS_TOKEN")
    /\ require_env("TWITTER_ACCESS_SECRET")

\* lines 186-191 with trends_v11 (lines 64-83): a RuntimeError of require_env
\* and an error of the API call both end in the except branch
FetchTrends ==
    /\ pc = "trends"
    /\ \/ /\ ~TwitterKeysPresent
          /\ trendsFailed' = TRUE
          /\ political_trends' = <<>>
          /\ log' = log
       \/ /\ TwitterKeysPresent
          /\ log' = Append(log, "net_trends")
          /\ \/ /\ trendsFailed' = TRUE
                /\ political_trends' = <<>>
             \/ \E res \in TrendCases :
                  /\ trendsFailed' = FALSE
                  /\ political_trends' = filter_political_trends(Prefix(res, MAX_TRENDS))
    /\ pc' = "search"
    /\ UNCHANGED <<env, file, run, state, tweets, new_tweets, message, new_state, prev>>

\* lines 193-197 with search_zanatta_v2 (lines 95-121)
SearchTweets ==
    /\ pc = "search"
    /\ \/ /\ ~require_env("TWITTER_BEARER_TOKEN")
          /\ tweets' = <<>>
          /\ log' = log
       \/ /\ require_env("TWITTER_BEARER_TOKEN")
          /\ log' = Append(log, "net_search")
          /\ \/ tweets' = <<>>
             \/ \E data \in TweetCases :
                  /\ Len(data) <= Min(MAX_TWEETS, SEARCH_API_MAX)
                  /\ tweets' = data
    /\ pc' = "build"
    /\ UNCHANGED <<env, file, run, state, trendsFailed, political_trends,
                   new_tweets, message, new_state, prev>>

\* line 199
BuildMessage ==
    /\ pc = "build"
    /\ \/ /\ BuildRaises(state)
          /\ pc' = "crashed"
          /\ UNCHANGED <<new_tweets, message, new_state>>
       \/ /\ ~BuildRaises(state)
          /\ \E seed \in 0..MaxSeed :
               LET r == build_message(political_trends, tweets, state, seed)
               IN  /\ message' = r.message
                   /\ new_state' = r.new_state
                   /\ new_tweets' = r.new_tweets
          /\ pc' = "send"
    /\ UNCHANGED <<env, file, run, state, trendsFailed, political_trends, tweets, log, prev>>

\* lines 201-202: the call returns, or raises out of main
SendMessage ==
    /\ pc = "send"
    /\ log' = Append(log, "send")
    /\ pc' \in {"save", "send_failed"}
    /\ UNCHANGED <<env, file, run, state, trendsFailed, political_trends, tweets,
                   new_tweets, message, new_state, prev>>

\* lines 59-61 called at line 204
save_state(st) == JsonFile(st)

SaveState ==
    /\ pc = "save"
    /\ file' = save_state(new_state)
    /\ log' = Append(log, "save")
    /\ pc' = "done"
    /\ UNCHANGED <<env, run, state, trendsFailed, political_trends, tweets,
                   new_tweets, message, new_state, prev>>

Ended == pc \in {"done", "fatal", "crashed", "send_failed"}

Built == pc \in {"send", "save", "send_failed", "done"}

\* the scheduler starts the script again (lines 208-209)
NextRun ==
    /\ Ended
    /\ run < MaxRuns
    /\ run' = run + 1
    /\ prev' = IF Built
               THEN [valid |-> TRUE, saved |-> pc = "done", state |-> state,
                     tweets |-> tweets, new_tweets |-> new_tweets, new_state |-> new_state]
               ELSE NoPrev
    /\ pc' = "start"
    /\ state' = DefaultState
    /\ trendsFailed' = FALSE
    /\ political_trends' = <<>>
    /\ tweets' = <<>>
    /\ new_tweets' = <<>>
    /\ message' = <<>>
    /\ new_state' = DefaultState
    /\ log' = <<>>
    /\ UNCHANGED <<env, file>>

Next ==
    \/ Start
    \/ LoadState
    \/ FetchTrends
    \/ SearchTweets
    \/ BuildMessage
    \/ SendMessage
    \/ SaveState
    \/ NextRun

Spec == Init /\ [][Next]_vars

----------------------------------------------------------------------------
(* Properties *)

Ids(tws) == [i \in DOMAIN tws |-> tws[i].id]

NoDuplicates(s) == Cardinality(Range(s)) = Len(s)

Before(a, b) ==
    \A i \in DOMAIN log : log[i] = b => \E j \in DOMAIN log : j < i /\ log[j] = a

\* C1: whenever sendMessage has been invoked in a run, the state file was
\* written earlier in that run; in particular a failed send leaves the
\* updated state on disk.
C1_SaveBeforeSend ==
    /\ Before("save", "send")
    /\ (pc = "send_failed" => file = save_state(new_state))

\* C2: in a run whose dedupe yields no new item and whose trends hash equals
\* the persisted one, sendMessage is never invoked.
C2_AntiFlood ==
    (Built /\ new_tweets = <<>> /\ new_state.hash = state.hash)
        => "send" \notin Range(log)

\* C3: after a run has persisted its state, the persisted last_tweet_ids has
\* at most KEEP_IDS entries, whatever the loaded state and the fetched list.
C3_SeenIdsBounded ==
    pc = "done" =>
        /\ file.kind = "json"
        /\ file.doc.ids.t = "list"
        /\ Len(file.doc.ids.v) <= KEEP_IDS

\* a run persisted exactly KEEP_IDS ids after dropping some
C3_Witness ==
    /\ pc = "done"
    /\ Len(file.doc.ids.v) = KEEP_IDS
    /\ Cardinality(SeenIds(state)) + Len(new_tweets) > KEEP_IDS

\* C4: when the persisted ids (a duplicate-free sequence within the
\* capacity) plus the new ids exceed the capacity, the
\* updated sequence is the last KEEP_IDS entries of the persisted sequence
\* followed by the new ids in fetch order.
C4_FifoEviction ==
    (/\ Built
     /\ Len(state.ids.v) <= KEEP_IDS
     /\ NoDuplicates(state.ids.v)
     /\ Len(state.ids.v) + Len(new_tweets) > KEEP_IDS)
        => new_state.ids.v = Suffix(state.ids.v \o Ids(new_tweets), KEEP_IDS)

\* the run before this one persisted its state, and this run loaded that
\* state and fetched the same list
SameFetchAgain ==
    /\ Built
    /\ prev.valid
    /\ prev.saved
    /\ state = prev.new_state
    /\ tweets = prev.tweets

\* C5 as stated: the second of two runs over the same fetched list finds no
\* new item, also when the seen ids are at capacity.
C5_IdempotentAlways == SameFetchAgain => new_tweets = <<>>

\* C5 amended: the second run finds no new item when the first run dropped
\* no id (distinct seen ids plus new ids within KEEP_IDS); otherwise its new
\* items are ids seen before the first run, never an id new in the first run.
C5_IdempotentUnlessEvicted ==
    SameFetchAgain =>
        /\ Cardinality(SeenIds(prev.state)) + Len(prev.new_tweets) <= KEEP_IDS
               => new_tweets = <<>>
        /\ Range(Ids(new_tweets)) \subseteq SeenIds(prev.state)
        /\ Range(Ids(new_tweets)) \cap Range(Ids(prev.new_tweets)) = {}

\* a second run over a list that was partly new in the first run finds
\* nothing new
C5_Witness ==
    /\ SameFetchAgain
    /\ prev.new_tweets # <<>>
    /\ tweets # <<>>
    /\ new_tweets = <<>>

\* C6: when the trends fetch failed and there are new mentions, the trends
\* section of the message is neither the "none filtered" nor the "no change"
\* rendering.
C6_TrendsUnavailableNotice ==
    (Built /\ trendsFailed /\ new_tweets # <<>>)
        => message[2].kind \notin {"trends_none", "trends_same"}

RequiredCredentials == Credentials \ {"TWITTER_BEARER_TOKEN"}

\* C7: if a required credential is absent, the run makes no network call.
C7_ConfigFailFast ==
    (\E c \in RequiredCredentials : ~require_env(c)) => log = <<>>

WellShaped(st) == st.top = "object" /\ st.ids.t \in {"list", "missing"}

\* C8: whatever the state file holds, the run does not abort on it and works
\* on a well-formed state.
C8_CorruptionNeverFatal ==
    /\ pc # "crashed"
    /\ (pc \notin {"start", "load"} => WellShaped(state))

\* C9: the message build_message returns has at most TELEGRAM_MAX_LEN
\* characters.
C9_MessageLength == SumLen(message) <= TELEGRAM_MAX_LEN

\* a message that was cut and ends with the ellipsis
C9_Witness ==
    /\ Built
    /\ SumLen(message) = TELEGRAM_MAX_LEN
    /\ message[Len(message)].kind = "ellipsis"
    /\ \E i \in DOMAIN message : message[i].kind = "tweet"

\* C10 as stated: from duplicate-free state files, the persisted ids never
\* repeat, even when a fetched list repeats an id.
C10_UniqueAlways == pc = "done" => NoDuplicates(file.doc.ids.v)

\* C10 amended: after a run whose fetched list has pairwise distinct ids the
\* persisted ids do not repeat.
C10_UniqueForDistinctFetch ==
    (pc = "done" /\ NoDuplicates(Ids(tweets))) => NoDuplicates(file.doc.ids.v)

\* a persisted run that fetched a seen id and new ids
C10_Witness ==
    /\ pc = "done"
    /\ NoDuplicates(Ids(tweets))
    /\ new_tweets # <<>>
    /\ Len(new_tweets) < Len(tweets)

====
